---- MODULE Spec2Model ----
(***************************************************************************)
(* Model of src/main.py: run_strategy_logic, the daily QQQ/QLD/TQQQ        *)
(* rotation report.  One run downloads a price table, rebuilds the tier    *)
(* signal day by day, backtests the lagged position, summarises the        *)
(* current holding and prints the report.                                  *)
(*                                                                         *)
(* Conventions.  Python positions are 0-based, TLA+ sequences 1-based:     *)
(* "day i" of the program is element i+1 here.  Indicator comparisons are  *)
(* done exactly, by cross-multiplication of integers.  Returns and         *)
(* cumulative products are float64 in the program; here they are held in   *)
(* fixed point, Milli units per 1.0, with truncating division.             *)
(***************************************************************************)
EXTENDS Integers, Sequences, FiniteSets, TLC

VARIABLES pc, data, i, current_state, signals,
          ret_1x, ret_2x, ret_3x, pos_series, trades, strat_daily_ret,
          strat_cum, bench_cum_1x, bench_cum_2x, bench_cum_3x,
          last_signal, days_held, prev_signal, switch_date,
          report, outcome

vars == <<pc, data, i, current_state, signals,
          ret_1x, ret_2x, ret_3x, pos_series, trades, strat_daily_ret,
          strat_cum, bench_cum_1x, bench_cum_2x, bench_cum_3x,
          last_signal, days_held, prev_signal, switch_date,
          report, outcome>>

---------------------------------------------------------------------------
(* Bounds of the model: tables of at most MaxLen rows, indicator prices    *)
(* in 1..MaxPrice.  The program fixes ma_window = 200 and rsi_window = 14; *)
(* the model keeps the two windows as parameters and runs them scaled      *)
(* down, with rsi_window < ma_window as in the program.                    *)
MaxLen == 7
MaxPrice == 2
ma_window == 5
rsi_window == 2

(* Program constants.  Fractions are held in thousandths.                  *)
Milli == 1000
rsi_buy_3x == 50
rsi_sell_3x == 80
bear_buffer == 0
bull_buffer == 5
transaction_cost == 1
EpsInvRoot == 100000
periods == {7, 30, 90, 180, 365}

(* The three tiers: 1 = QQQ (1x), 2 = QLD (2x), 3 = TQQQ (3x).             *)
DEFENSIVE == 1
NEUTRAL == 2
AGGRESSIVE == 3
Tiers == {DEFENSIVE, NEUTRAL, AGGRESSIVE}

(* Python's None / a missing cell of the downloaded table.  Prices are     *)
(* positive and tiers are 1..3, so 0 is free to stand for it.              *)
None == 0
NoDate == <<>>

---------------------------------------------------------------------------
(* Small helpers.                                                          *)
RECURSIVE SumRange(_, _, _)
SumRange(f, lo, hi) == IF lo > hi THEN 0 ELSE f[hi] + SumRange(f, lo, hi - 1)

(* Fixed-point product and quotient of two values held in Milli units.     *)
FMul(a, b) == (a * b) \div Milli
FDiv(a, b) == (a * Milli) \div b

---------------------------------------------------------------------------
(* The trading calendar and strftime('%Y-%m-%d').  Dates are day numbers,  *)
(* day 0 = Monday 2024-01-01; Saturdays and Sundays are never in a table.  *)
MonthLen == <<31, 29, 31, 30, 31, 30, 31, 31, 30, 31, 30, 31>>

RECURSIVE MonthDay(_, _)
MonthDay(m, d) ==
    IF m < 12 /\ d >= MonthLen[m] THEN MonthDay(m + 1, d - MonthLen[m])
    ELSE <<2024, m, d + 1>>

strftime(d) == MonthDay(1, d)

---------------------------------------------------------------------------
(* The downloaded table (lines 80-88).  raw_data['Adj Close'] has one      *)
(* column per symbol and one row per trading day; a cell may be missing.   *)
(* SPY only feeds a fifth benchmark column of the report, computed like    *)
(* the other three, and is left out.                                       *)
Table(idx, q1, q2, q3, nd) ==
    [index |-> idx, QQQ |-> q1, QLD |-> q2, TQQQ |-> q3, NDX |-> nd]

RECURSIVE ffill(_)
ffill(col) ==
    IF col = <<>> THEN <<>>
    ELSE LET n == Len(col)
             f == ffill(SubSeq(col, 1, n - 1))
         IN  Append(f, IF col[n] # None THEN col[n]
                       ELSE IF n = 1 THEN None ELSE f[n - 1])

RECURSIVE Pick(_, _, _)
Pick(col, keep, k) ==
    IF k = 0 THEN <<>>
    ELSE IF k \in keep THEN Append(Pick(col, keep, k - 1), col[k])
    ELSE Pick(col, keep, k - 1)

dropna(t) ==
    LET n == Len(t.index)
        keep == {k \in 1..n : /\ t.QQQ[k] # None /\ t.QLD[k] # None
                              /\ t.TQQQ[k] # None /\ t.NDX[k] # None}
    IN  Table(Pick(t.index, keep, n), Pick(t.QQQ, keep, n), Pick(t.QLD, keep, n),
              Pick(t.TQQQ, keep, n), Pick(t.NDX, keep, n))

clean(raw) ==
    dropna(Table(raw.index, ffill(raw.QQQ), ffill(raw.QLD),
                 ffill(raw.TQQQ), ffill(raw.NDX)))

(* The tables a download can return.  Dates are weekdays in increasing     *)
(* order, from a start day, with an optional market holiday before any     *)
(* row.  The input space is explored one dimension at a time: every        *)
(* indicator series on a fixed feed and calendar, every feed and every     *)
(* calendar on a few indicator series, and short tables with missing       *)
(* cells.                                                                  *)
(* Row k is the weekday reached from the start day by skipping one        *)
(* weekday for every earlier row and for every holiday up to row k.        *)
Calendar(start, hol, n) ==
    [k \in 1..n |->
        LET t == (start % 7) + (k - 1) + Cardinality({h \in hol : h <= k})
        IN  (start - (start % 7)) + 7 * (t \div 5) + (t % 5)]

StartDays == 28..32
DefaultCalendar(n) == Calendar(28, {}, n)
Calendars(n) == {Calendar(s, hol, n) : s \in StartDays, hol \in SUBSET (2..n)}

Alt12(n) == [k \in 1..n |-> 1 + ((k - 1) % 2)]
Alt21(n) == [k \in 1..n |-> 2 - ((k - 1) % 2)]
Flat(n) == [k \in 1..n |-> 1]
Step(n) == [k \in 1..n |-> 1 + (((k - 1) \div 2) % 2)]
FeedPatterns(n) == {Alt12(n), Alt21(n), Flat(n), Step(n)}

ScenarioSeries ==
    { <<2, 2, 2, 1, 1, 3, 3, 2, 2, 1>>,
      <<1, 1, 3, 3, 2, 3, 3, 1, 3, 3>>,
      <<3, 3, 3, 3, 1, 3, 2, 2, 3, 1>> }
ScenarioNdx(n) == {SubSeq(s, 1, n) : s \in ScenarioSeries}

FamilyNdx(n) ==
    {Table(DefaultCalendar(n), Alt12(n), Flat(n), Alt21(n), nd) :
        nd \in [1..n -> 1..MaxPrice]}
FamilyFeed(n) ==
    {Table(DefaultCalendar(n), f[1], f[2], f[3], nd) :
        f \in [1..3 -> FeedPatterns(n)], nd \in ScenarioNdx(n)}
FamilyCal(n) ==
    {Table(c, Alt12(n), Flat(n), Alt21(n), nd) :
        c \in Calendars(n), nd \in ScenarioNdx(n)}
(* Price histories that land exactly on a comparison of lines 116-126: a   *)
(* price equal to its mean and to 1.005 times its mean, an oscillator of   *)
(* exactly 50 and of exactly 80, and a recovery followed by a flat day.    *)
EdgeSeries ==
    { <<199, 202, 200, 199, 200, 200, 201, 201, 201, 201>>,
      <<10, 10, 14, 14, 13, 17, 18, 17, 17, 17>>,
      <<9, 1, 1, 1, 2, 2, 2, 2, 2, 2>> }
FamilyEdge(n) ==
    {Table(DefaultCalendar(n), Alt12(n), Flat(n), Alt21(n), SubSeq(s, 1, n)) :
        s \in EdgeSeries}
FamilyGaps(n) ==
    IF n > 3 THEN {}
    ELSE {Table(DefaultCalendar(n), q1, Flat(n), Alt21(n), nd) :
            q1 \in [1..n -> {None, 1, 2}], nd \in [1..n -> {None, 1, 2}]}

RawTables(n) ==
    FamilyNdx(n) \cup FamilyFeed(n) \cup FamilyCal(n) \cup FamilyEdge(n)
        \cup FamilyGaps(n)

---------------------------------------------------------------------------
(* Indicators (lines 96-102) over the indicator column p, at row k.        *)
(* sma_200 = rolling(ma_window).mean(): NaN on the first ma_window - 1     *)
(* rows, then the mean of the trailing ma_window prices, kept here as      *)
(* their sum.                                                              *)
sma_isna(k) == k < ma_window
sma_sum(p, k) == SumRange(p, k - ma_window + 1, k)

(* delta = diff() is NaN on the first row; where(delta > 0, 0) and         *)
(* where(delta < 0, 0) turn that NaN into 0, so gain and loss are defined  *)
(* from row rsi_window on.                                                 *)
delta(p, k) == p[k] - p[k - 1]
gain_term(p, k) == IF k >= 2 /\ delta(p, k) > 0 THEN delta(p, k) ELSE 0
loss_term(p, k) == IF k >= 2 /\ delta(p, k) < 0 THEN 0 - delta(p, k) ELSE 0
rsi_isna(k) == k < rsi_window
gain_sum(p, k) ==
    SumRange([j \in 1..k |-> gain_term(p, j)], k - rsi_window + 1, k)
loss_sum(p, k) ==
    SumRange([j \in 1..k |-> loss_term(p, j)], k - rsi_window + 1, k)

(* x * 1e10 > y and x * 1e10 < y for integers, without forming 1e10.       *)
ScaledGt(x, y) == x > (y \div EpsInvRoot) \div EpsInvRoot
ScaledLt(x, y) == x <= ((y - 1) \div EpsInvRoot) \div EpsInvRoot

(* rsi = 100 - 100 / (1 + gain / loss), loss = 1e-10 where the rolling     *)
(* mean of losses is 0.  With G, L the window sums (means times            *)
(* rsi_window):  rsi > t  iff  t * loss < (100 - t) * gain.  A NaN rsi     *)
(* compares False both ways.                                               *)
rsi_gt(p, k, t) ==
    /\ ~rsi_isna(k)
    /\ LET G == gain_sum(p, k)
           L == loss_sum(p, k)
       IN  IF L = 0 THEN ScaledGt((100 - t) * G, t * rsi_window)
           ELSE t * L < (100 - t) * G
rsi_lt(p, k, t) ==
    /\ ~rsi_isna(k)
    /\ LET G == gain_sum(p, k)
           L == loss_sum(p, k)
       IN  IF L = 0 THEN ScaledLt((100 - t) * G, t * rsi_window)
           ELSE t * L > (100 - t) * G

(* price < ma * (1 - bear_buffer) and price > ma * (1 + bull_buffer).      *)
below_bear(p, k) ==
    p[k] * ma_window * Milli < sma_sum(p, k) * (Milli - bear_buffer)
(* Faulty variant of the recovery test: equality counts as above.          *)
above_bull_or_equal(p, k) ==
    p[k] * ma_window * Milli >= sma_sum(p, k) * (Milli + bull_buffer)
above_bull(p, k) ==
    p[k] * ma_window * Milli > sma_sum(p, k) * (Milli + bull_buffer)

(* Faulty variants of the tier rule, used to test the properties below.   *)
(* Momentum consulted before the trend gate.                               *)
next_state_gate_after_momentum(cs, p, k) ==
    IF cs # 1 /\ rsi_gt(p, k, rsi_sell_3x) THEN 2
    ELSE IF cs # 1 /\ rsi_lt(p, k, rsi_buy_3x) THEN 3
    ELSE IF below_bear(p, k) THEN 1
    ELSE IF cs = 1 /\ above_bull(p, k) THEN 2
    ELSE cs

(* Re-entry from the defensive tier as soon as the price is not below the  *)
(* bear threshold.                                                         *)
next_state_unbuffered_reentry(cs, p, k) ==
    IF below_bear(p, k) THEN 1
    ELSE IF cs = 1 THEN 2
    ELSE IF rsi_gt(p, k, rsi_sell_3x) THEN 2
    ELSE IF rsi_lt(p, k, rsi_buy_3x) THEN 3
    ELSE cs

(* The two momentum outcomes exchanged.                                    *)
next_state_swapped_tiers(cs, p, k) ==
    IF below_bear(p, k) THEN 1
    ELSE IF cs = 1 THEN (IF above_bull(p, k) THEN 2 ELSE cs)
    ELSE IF rsi_gt(p, k, rsi_sell_3x) THEN 3
    ELSE IF rsi_lt(p, k, rsi_buy_3x) THEN 2
    ELSE cs

(* Momentum consulted on the day the defensive tier is left.               *)
next_state_momentum_on_recovery(cs, p, k) ==
    IF below_bear(p, k) THEN 1
    ELSE IF cs = 1 /\ ~above_bull(p, k) THEN cs
    ELSE IF rsi_gt(p, k, rsi_sell_3x) THEN 2
    ELSE IF rsi_lt(p, k, rsi_buy_3x) THEN 3
    ELSE IF cs = 1 THEN 2
    ELSE cs

(* Recovery straight into the aggressive tier.                             *)
next_state_recovery_to_aggressive(cs, p, k) ==
    IF below_bear(p, k) THEN 1
    ELSE IF cs = 1 THEN (IF above_bull(p, k) THEN 3 ELSE cs)
    ELSE IF rsi_gt(p, k, rsi_sell_3x) THEN 2
    ELSE IF rsi_lt(p, k, rsi_buy_3x) THEN 3
    ELSE cs

(* The tier rule of one day (lines 116-126): the new current_state.        *)
next_state(cs, p, k) ==
    IF below_bear(p, k) THEN 1
    ELSE IF cs = 1 THEN (IF above_bull(p, k) THEN 2 ELSE cs)
    ELSE IF rsi_gt(p, k, rsi_sell_3x) THEN 2
    ELSE IF rsi_lt(p, k, rsi_buy_3x) THEN 3
    ELSE cs

---------------------------------------------------------------------------
(* Backtest (lines 131-149).                                               *)
(* pct_change().fillna(0): 0 on the first row, then p[k] / p[k-1] - 1.     *)
pct_change(p) ==
    [k \in 1..Len(p) |-> IF k = 1 THEN 0 ELSE FDiv(p[k], p[k - 1]) - Milli]

(* Faulty variant: the position taken on the day of the signal, no lag.   *)
shift_fillna_no_lag(sig) ==
    [k \in 1..Len(sig) |-> sig[k]]

(* Series(signals).shift(1).fillna(2): yesterday's signal, 2 on the first  *)
(* row.                                                                    *)
shift_fillna(sig) ==
    [k \in 1..Len(sig) |-> IF k = 1 THEN 2 ELSE sig[k - 1]]

(* Lines 137-140: a series of 0.0, overwritten row by row with the return  *)
(* of the instrument the position names (mask assignment aligns on the     *)
(* index).                                                                 *)
map_returns(pos, r1, r2, r3) ==
    [k \in 1..Len(pos) |->
        IF pos[k] = 3 THEN r3[k]
        ELSE IF pos[k] = 2 THEN r2[k]
        ELSE IF pos[k] = 1 THEN r1[k]
        ELSE 0]

(* Line 142: (pos_series != pos_series.shift(1)).astype(int).  The shifted *)
(* series is NaN on the first row and 2.0 != NaN is True, so the first row *)
(* counts as a trade.                                                      *)
trades_of(pos) ==
    [k \in 1..Len(pos) |->
        IF k = 1 THEN 1 ELSE IF pos[k] # pos[k - 1] THEN 1 ELSE 0]

(* Line 143: strat_daily_ret -= trades * transaction_cost.                 *)
charge(ret, tr) ==
    [k \in 1..Len(ret) |-> ret[k] - tr[k] * transaction_cost]

(* (1 + r).cumprod(): the running product, the first element taken as is.  *)
(* Faulty variant: returns added up instead of compounded.                *)
cumprod_as_cumsum(r) ==
    [k \in 1..Len(r) |-> Milli + SumRange(r, 1, k)]

RECURSIVE prod_upto(_, _)
prod_upto(r, k) ==
    IF k = 1 THEN Milli + r[1] ELSE FMul(prod_upto(r, k - 1), Milli + r[k])

cumprod(r) == [k \in 1..Len(r) |-> prod_upto(r, k)]

(* Faulty variant: the insertion point after the dates equal to target.   *)
searchsorted_right(index, target) ==
    Cardinality({k \in 1..Len(index) : index[k] <= target})

(* Lines 151-156.  searchsorted(target) on the sorted date index is the    *)
(* number of dates before target (a 0-based position).                     *)
searchsorted(index, target) ==
    Cardinality({k \in 1..Len(index) : index[k] < target})

(* Faulty variant: no test of the series length against the lookback.     *)
get_period_return_no_guard(cum_series, index, days_lookback) ==
    LET n == Len(cum_series)
        target_date == index[n] - days_lookback
        found == Cardinality({k \in 1..n : index[k] < target_date})
        idx == IF found >= n THEN n - 1 ELSE found
    IN  FDiv(cum_series[n], cum_series[idx + 1]) - Milli

get_period_return(cum_series, index, days_lookback) ==
    IF Len(cum_series) < days_lookback THEN 0
    ELSE LET n == Len(cum_series)
             target_date == index[n] - days_lookback
             found == searchsorted(index, target_date)
             idx == IF found >= n THEN n - 1 ELSE found
         IN  FDiv(cum_series[n], cum_series[idx + 1]) - Milli

(* Faulty variant: the switch dated on the last day of the previous tier.  *)
RECURSIVE holding_scan_date_before(_, _, _)
holding_scan_date_before(sig, k, held) ==
    IF k < 1
    THEN [days_held |-> held + 1, prev_signal |-> None, switch_row |-> None]
    ELSE IF sig[k] = sig[Len(sig)]
    THEN holding_scan_date_before(sig, k - 1, held + 1)
    ELSE [days_held |-> held + 1, prev_signal |-> sig[k], switch_row |-> k]

(* Faulty variant of the scan: the day of the differing signal is counted  *)
(* among the days held.                                                    *)
RECURSIVE holding_scan_counts_break(_, _, _)
holding_scan_counts_break(sig, k, held) ==
    IF k < 1
    THEN [days_held |-> held + 1, prev_signal |-> None, switch_row |-> None]
    ELSE IF sig[k] = sig[Len(sig)]
    THEN holding_scan_counts_break(sig, k - 1, held + 1)
    ELSE [days_held |-> held + 2, prev_signal |-> sig[k], switch_row |-> k + 1]

(* Lines 159-171: the backward scan from the second-to-last signal.  k is  *)
(* the row looked at, held the equal rows counted so far.                  *)
RECURSIVE holding_scan(_, _, _)
holding_scan(sig, k, held) ==
    IF k < 1
    THEN [days_held |-> held + 1, prev_signal |-> None, switch_row |-> None]
    ELSE IF sig[k] = sig[Len(sig)]
    THEN holding_scan(sig, k - 1, held + 1)
    ELSE [days_held |-> held + 1, prev_signal |-> sig[k], switch_row |-> k + 1]

etf_map == <<"QQQ", "QLD", "TQQQ">>

---------------------------------------------------------------------------
Init ==
    /\ pc = "download"
    /\ data = Table(<<>>, <<>>, <<>>, <<>>, <<>>)
    /\ i = 0
    /\ current_state = None
    /\ signals = <<>>
    /\ ret_1x = <<>> /\ ret_2x = <<>> /\ ret_3x = <<>>
    /\ pos_series = <<>> /\ trades = <<>> /\ strat_daily_ret = <<>>
    /\ strat_cum = <<>>
    /\ bench_cum_1x = <<>> /\ bench_cum_2x = <<>> /\ bench_cum_3x = <<>>
    /\ last_signal = None /\ days_held = 0
    /\ prev_signal = None /\ switch_date = NoDate
    /\ report = <<>>
    /\ outcome = "running"

(* Faulty variant of the download: the emptiness test is missing, so an    *)
(* empty table starts the signal loop with its default tier.               *)
Download_no_empty_test ==
    /\ pc = "download"
    /\ \E n \in 0..MaxLen : \E raw \in RawTables(n) :
         /\ data' = clean(raw)
         /\ pc' = "signals"
         /\ outcome' = outcome
         /\ signals' = <<>>
         /\ current_state' = 2
         /\ i' = 1
    /\ UNCHANGED <<ret_1x, ret_2x, ret_3x, pos_series, trades, strat_daily_ret,
                   strat_cum, bench_cum_1x, bench_cum_2x, bench_cum_3x,
                   last_signal, days_held, prev_signal, switch_date, report>>

(* Lines 78-94, 104-105 and 233-234: the download, the cleaning of the     *)
(* table and the emptiness test; a non-empty table starts the signal loop. *)
Download ==
    /\ pc = "download"
    /\ \E n \in 0..MaxLen : \E raw \in RawTables(n) :
         LET d == clean(raw) IN
         /\ data' = d
         /\ IF d.index = <<>>
            THEN /\ pc' = "done"
                 /\ outcome' = "no_data"
                 /\ UNCHANGED <<i, current_state, signals>>
            ELSE /\ pc' = "signals"
                 /\ outcome' = outcome
                 /\ signals' = <<>>
                 /\ current_state' = 2
                 /\ i' = 1
    /\ UNCHANGED <<ret_1x, ret_2x, ret_3x, pos_series, trades, strat_daily_ret,
                   strat_cum, bench_cum_1x, bench_cum_2x, bench_cum_3x,
                   last_signal, days_held, prev_signal, switch_date, report>>

(* Lines 90-92: the download raises; the run ends with no computation.     *)
DownloadFails ==
    /\ pc = "download"
    /\ pc' = "done"
    /\ outcome' = "download_failed"
    /\ UNCHANGED <<data, i, current_state, signals,
                   ret_1x, ret_2x, ret_3x, pos_series, trades, strat_daily_ret,
                   strat_cum, bench_cum_1x, bench_cum_2x, bench_cum_3x,
                   last_signal, days_held, prev_signal, switch_date, report>>

(* Faulty variant of the loop body: a dormant day appends nothing.        *)
SignalDay_skip_dormant ==
    /\ pc = "signals"
    /\ i <= Len(data.NDX)
    /\ IF sma_isna(i)
       THEN /\ signals' = signals
            /\ current_state' = current_state
       ELSE /\ current_state' = next_state(current_state, data.NDX, i)
            /\ signals' = Append(signals, current_state')
    /\ i' = i + 1
    /\ pc' = IF i = Len(data.NDX) THEN "returns" ELSE "signals"
    /\ UNCHANGED <<data, ret_1x, ret_2x, ret_3x, pos_series, trades,
                   strat_daily_ret, strat_cum, bench_cum_1x, bench_cum_2x,
                   bench_cum_3x, last_signal, days_held, prev_signal,
                   switch_date, report, outcome>>

(* Lines 107-128: one iteration of the signal loop, for row i.             *)
SignalDay ==
    /\ pc = "signals"
    /\ i <= Len(data.NDX)
    /\ IF sma_isna(i)
       THEN /\ signals' = Append(signals, 2)
            /\ current_state' = current_state
       ELSE /\ current_state' = next_state(current_state, data.NDX, i)
            /\ signals' = Append(signals, current_state')
    /\ i' = i + 1
    /\ pc' = IF i = Len(data.NDX) THEN "returns" ELSE "signals"
    /\ UNCHANGED <<data, ret_1x, ret_2x, ret_3x, pos_series, trades,
                   strat_daily_ret, strat_cum, bench_cum_1x, bench_cum_2x,
                   bench_cum_3x, last_signal, days_held, prev_signal,
                   switch_date, report, outcome>>

(* Lines 131-140: daily returns, the lagged position and the return of    *)
(* the instrument held, before costs.                                      *)
MapReturns ==
    /\ pc = "returns"
    /\ ret_1x' = pct_change(data.QQQ)
    /\ ret_2x' = pct_change(data.QLD)
    /\ ret_3x' = pct_change(data.TQQQ)
    /\ pos_series' = shift_fillna(signals)
    /\ strat_daily_ret' = map_returns(pos_series', ret_1x', ret_2x', ret_3x')
    /\ pc' = "costs"
    /\ UNCHANGED <<data, i, current_state, signals, trades,
                   strat_cum, bench_cum_1x, bench_cum_2x, bench_cum_3x,
                   last_signal, days_held, prev_signal, switch_date,
                   report, outcome>>

(* Lines 142-143: the trade days and the cost charged on them.             *)
ChargeCosts ==
    /\ pc = "costs"
    /\ trades' = trades_of(pos_series)
    /\ strat_daily_ret' = charge(strat_daily_ret, trades')
    /\ pc' = "compound"
    /\ UNCHANGED <<data, i, current_state, signals, ret_1x, ret_2x, ret_3x,
                   pos_series, strat_cum, bench_cum_1x, bench_cum_2x,
                   bench_cum_3x, last_signal, days_held, prev_signal,
                   switch_date, report, outcome>>

(* Lines 145-149: the cumulative series of the strategy and of each        *)
(* instrument.                                                             *)
Compound ==
    /\ pc = "compound"
    /\ strat_cum' = cumprod(strat_daily_ret)
    /\ bench_cum_1x' = cumprod(ret_1x)
    /\ bench_cum_2x' = cumprod(ret_2x)
    /\ bench_cum_3x' = cumprod(ret_3x)
    /\ pc' = "holding"
    /\ UNCHANGED <<data, i, current_state, signals, ret_1x, ret_2x, ret_3x,
                   pos_series, trades, strat_daily_ret,
                   last_signal, days_held, prev_signal, switch_date,
                   report, outcome>>

(* Lines 159-171: the holding statistics.                                  *)
Holding ==
    /\ pc = "holding"
    /\ LET h == holding_scan(signals, Len(signals) - 1, 0) IN
       /\ last_signal' = signals[Len(signals)]
       /\ days_held' = h.days_held
       /\ prev_signal' = h.prev_signal
       /\ switch_date' = IF h.switch_row = None THEN NoDate
                         ELSE strftime(data.index[h.switch_row])
    /\ pc' = "report"
    /\ UNCHANGED <<data, i, current_state, signals, ret_1x, ret_2x, ret_3x,
                   pos_series, trades, strat_daily_ret,
                   strat_cum, bench_cum_1x, bench_cum_2x, bench_cum_3x,
                   report, outcome>>

(* Lines 173-231: the board.  sig_prev = signals[-2] raises IndexError on  *)
(* a one-row table, before anything is printed from here on; the caller    *)
(* (line 246) records the error.  Otherwise the holding lines, the table   *)
(* of period returns and the instruction of the day are printed.           *)
Report ==
    /\ pc = "report"
    /\ IF Len(signals) < 2
       THEN /\ outcome' = "crashed"
            /\ report' = report
       ELSE LET sig_prev == signals[Len(signals) - 1] IN
            /\ outcome' = "reported"
            /\ report' =
                 [holding |-> etf_map[last_signal],
                  days |-> days_held,
                  switched |-> IF prev_signal # None
                               THEN <<switch_date, etf_map[prev_signal]>>
                               ELSE <<>>,
                  table |-> [d \in periods |->
                      [strat |-> get_period_return(strat_cum, data.index, d),
                       b1 |-> get_period_return(bench_cum_1x, data.index, d),
                       b2 |-> get_period_return(bench_cum_2x, data.index, d),
                       b3 |-> get_period_return(bench_cum_3x, data.index, d)]],
                  action |-> IF last_signal = sig_prev THEN "HOLD" ELSE "ACTION",
                  sell |-> IF last_signal = sig_prev THEN "" ELSE etf_map[sig_prev],
                  buy |-> etf_map[last_signal]]
    /\ pc' = "done"
    /\ UNCHANGED <<data, i, current_state, signals, ret_1x, ret_2x, ret_3x,
                   pos_series, trades, strat_daily_ret,
                   strat_cum, bench_cum_1x, bench_cum_2x, bench_cum_3x,
                   last_signal, days_held, prev_signal, switch_date>>

Next ==
    \/ Download \/ DownloadFails \/ SignalDay
    \/ MapReturns \/ ChargeCosts \/ Compound \/ Holding \/ Report

Spec == Init /\ [][Next]_vars

---------------------------------------------------------------------------
(* Properties of the signal loop.  The thresholds are restated here from   *)
(* the prices, independently of the operators the loop uses.               *)
NdxWindowSum(k) == SumRange(data.NDX, k - ma_window + 1, k)
MaDefined(k) == k >= ma_window
PriceBelowBear(k) ==
    data.NDX[k] * ma_window * Milli < NdxWindowSum(k) * (Milli - bear_buffer)
PriceAboveBull(k) ==
    data.NDX[k] * ma_window * Milli > NdxWindowSum(k) * (Milli + bull_buffer)
Emitted == 1..Len(signals)

(* C1: on every day where the moving average is defined and the price is   *)
(* below movingAverage * (1 - bearBuffer), the emitted tier is DEFENSIVE.  *)
C1_TrendGate ==
    \A k \in Emitted :
        (MaDefined(k) /\ PriceBelowBear(k)) => signals[k] = DEFENSIVE

(* The gate closes on a day that follows an AGGRESSIVE day.                *)
C1_Witness ==
    \E k \in Emitted :
        /\ k > 1 /\ signals[k - 1] = AGGRESSIVE
        /\ MaDefined(k) /\ PriceBelowBear(k) /\ signals[k] = DEFENSIVE

(* C2: after a DEFENSIVE day j, every later day k is DEFENSIVE unless the  *)
(* price exceeded movingAverage * (1 + bullBuffer) on some day in j+1..k.  *)
C2_NoReentryBeforeRecovery ==
    \A j \in Emitted : \A k \in Emitted :
        (/\ j < k
         /\ signals[j] = DEFENSIVE
         /\ \A m \in (j + 1)..k : ~PriceAboveBull(m))
        => signals[k] = DEFENSIVE

(* A DEFENSIVE day followed by a day that is neither below the bear        *)
(* threshold nor above the bull threshold, and still DEFENSIVE.            *)
C2_Witness ==
    \E j \in Emitted :
        /\ j + 1 \in Emitted
        /\ signals[j] = DEFENSIVE
        /\ ~PriceBelowBear(j + 1) /\ ~PriceAboveBull(j + 1)
        /\ signals[j + 1] = DEFENSIVE

(* C4: the signal list has one entry per row of the table, each one of the *)
(* three tiers.                                                            *)
LoopOver == pc \in {"returns", "costs", "compound", "holding", "report"}
                \/ outcome \in {"reported", "crashed"}

C4_OneTierPerDay ==
    /\ pc = "signals" => Len(signals) = i - 1
    /\ LoopOver => /\ Len(signals) = Len(data.index)
                   /\ Len(signals) >= 1
    /\ \A k \in Emitted : signals[k] \in Tiers

(* A finished loop over a full-length table in which all three tiers occur. *)
C4_Witness ==
    /\ pc = "returns"
    /\ Len(signals) = MaxLen
    /\ \A t \in Tiers : \E k \in Emitted : signals[k] = t

(* The oscillator against a threshold t (0 < t < 100), from the rises and  *)
(* falls of the price over the trailing rsi_window rows.  With no fall in  *)
(* the window the loss is the epsilon: the value is near 100 if there is   *)
(* any rise, and 0 if there is none.                                       *)
Rise(j) == IF j >= 2 /\ data.NDX[j] > data.NDX[j - 1]
           THEN data.NDX[j] - data.NDX[j - 1] ELSE 0
Fall(j) == IF j >= 2 /\ data.NDX[j] < data.NDX[j - 1]
           THEN data.NDX[j - 1] - data.NDX[j] ELSE 0
Rises(k) == SumRange([j \in 1..k |-> Rise(j)], k - rsi_window + 1, k)
Falls(k) == SumRange([j \in 1..k |-> Fall(j)], k - rsi_window + 1, k)
OscDefined(k) == k >= rsi_window
OscAbove(k, t) ==
    /\ OscDefined(k)
    /\ IF Falls(k) = 0 THEN Rises(k) > 0
       ELSE (100 - t) * Rises(k) > t * Falls(k)
OscBelow(k, t) ==
    /\ OscDefined(k)
    /\ IF Falls(k) = 0 THEN Rises(k) = 0
       ELSE (100 - t) * Rises(k) < t * Falls(k)

(* C7: on a day with the moving average defined, the price not below the   *)
(* bear threshold and the running tier NEUTRAL or AGGRESSIVE, the emitted  *)
(* tier is NEUTRAL if the oscillator is above rsiSellThreshold, AGGRESSIVE *)
(* if it is below rsiBuyThreshold, and the running tier otherwise.         *)
C7_MomentumRule ==
    [][(/\ pc = "signals"
        /\ MaDefined(i)
        /\ ~PriceBelowBear(i)
        /\ current_state \in {NEUTRAL, AGGRESSIVE})
       => signals'[i] =
            IF OscAbove(i, rsi_sell_3x) THEN NEUTRAL
            ELSE IF OscBelow(i, rsi_buy_3x) THEN AGGRESSIVE
            ELSE current_state]_vars

(* An AGGRESSIVE day, then a day inside the band between the two           *)
(* thresholds that stays AGGRESSIVE, then a day above the sell threshold   *)
(* that emits NEUTRAL.                                                     *)
C7_Witness ==
    \E k \in Emitted :
        /\ k > 1 /\ k + 1 \in Emitted
        /\ signals[k - 1] = AGGRESSIVE
        /\ MaDefined(k) /\ ~PriceBelowBear(k)
        /\ ~OscAbove(k, rsi_sell_3x) /\ ~OscBelow(k, rsi_buy_3x)
        /\ signals[k] = AGGRESSIVE
        /\ ~PriceBelowBear(k + 1) /\ OscAbove(k + 1, rsi_sell_3x)
        /\ signals[k + 1] = NEUTRAL

---------------------------------------------------------------------------
(* Properties of the backtest.                                             *)
Days == 1..Len(pos_series)
TierColumn(t) == IF t = DEFENSIVE THEN data.QQQ
                 ELSE IF t = NEUTRAL THEN data.QLD ELSE data.TQQQ

(* The day's return of the instrument of tier t: 0 on the first day, then  *)
(* price over previous price, minus 1.                                     *)
InstrumentReturn(t, k) ==
    IF k = 1 THEN 0
    ELSE ((TierColumn(t)[k] * Milli) \div TierColumn(t)[k - 1]) - Milli

PositionChanged(k) == k >= 2 /\ pos_series[k] # pos_series[k - 1]
CostsCharged == pc \in {"compound", "holding", "report"}
                    \/ outcome \in {"reported", "crashed"}

(* C3: the cost is subtracted on day i exactly when i >= 1 and the         *)
(* position differs from the previous day's; day 0 is never charged.       *)
C3_CostOnlyOnPositionChange ==
    CostsCharged =>
        \A k \in Days :
            strat_daily_ret[k] =
                IF PositionChanged(k)
                THEN InstrumentReturn(pos_series[k], k) - transaction_cost
                ELSE InstrumentReturn(pos_series[k], k)

(* C5: the position is NEUTRAL on day 0 and the previous day's signal on   *)
(* every later day, and before costs the strategy's return of a day is the *)
(* day's return of the instrument of that day's position.                  *)
C5_LaggedPositionReturn ==
    /\ (pc = "costs" \/ CostsCharged) =>
          /\ Len(pos_series) = Len(signals)
          /\ pos_series[1] = NEUTRAL
          /\ \A k \in Days : k >= 2 => pos_series[k] = signals[k - 1]
    /\ pc = "costs" =>
          \A k \in Days :
              strat_daily_ret[k] = InstrumentReturn(pos_series[k], k)

(* Before costs, with every tier held on some day after a day with        *)
(* another signal, on days where the three instruments return differently. *)
C5_Witness ==
    /\ pc = "costs"
    /\ \A t \in Tiers : \E k \in Days :
          /\ k >= 2 /\ pos_series[k] = t /\ signals[k] # t
          /\ \A u \in Tiers \ {t} :
                InstrumentReturn(u, k) # InstrumentReturn(t, k)

(* C10: each cumulative series starts at 1 plus the first daily return and *)
(* is afterwards the previous value times 1 plus the day's return: the     *)
(* strategy's over its net returns, each instrument's over its own         *)
(* returns.                                                                *)
Compounds(cum, ret) ==
    /\ Len(cum) = Len(ret)
    /\ \A k \in 1..Len(cum) :
          cum[k] = IF k = 1 THEN Milli + ret[1]
                   ELSE (cum[k - 1] * (Milli + ret[k])) \div Milli
OwnReturns(ret, t) ==
    /\ Len(ret) = Len(data.index)
    /\ \A k \in 1..Len(ret) : ret[k] = InstrumentReturn(t, k)
Compounded == pc \in {"holding", "report"} \/ outcome \in {"reported", "crashed"}

C10_CumulativeIdentity ==
    Compounded =>
        /\ Compounds(strat_cum, strat_daily_ret)
        /\ Compounds(bench_cum_1x, ret_1x) /\ OwnReturns(ret_1x, DEFENSIVE)
        /\ Compounds(bench_cum_2x, ret_2x) /\ OwnReturns(ret_2x, NEUTRAL)
        /\ Compounds(bench_cum_3x, ret_3x) /\ OwnReturns(ret_3x, AGGRESSIVE)

(* A full-length run whose strategy series moved on at least three days    *)
(* and ends away from every instrument's series.                           *)
C10_Witness ==
    /\ pc = "holding"
    /\ Len(strat_cum) = MaxLen
    /\ Cardinality({k \in 2..MaxLen : strat_cum[k] # strat_cum[k - 1]}) >= 3
    /\ strat_cum[MaxLen] \notin
          {bench_cum_1x[MaxLen], bench_cum_2x[MaxLen], bench_cum_3x[MaxLen]}

---------------------------------------------------------------------------
(* Properties of the holding summary.                                      *)
Summarised == pc = "report" \/ outcome \in {"reported", "crashed"}

(* C6: days_held is at least 1 and is the length of the run of the last    *)
(* tier at the end of the signals; with a differing day before the run,    *)
(* prev_signal is that day's tier and switch_date the date of the run's    *)
(* first day; with none, both are null.                                    *)
C6_HoldingSummary ==
    Summarised =>
        LET n == Len(signals) IN
        /\ last_signal = signals[n]
        /\ days_held >= 1 /\ days_held <= n
        /\ \A k \in (n - days_held + 1)..n : signals[k] = signals[n]
        /\ IF days_held = n
           THEN prev_signal = None /\ switch_date = NoDate
           ELSE /\ signals[n - days_held] # signals[n]
                /\ prev_signal = signals[n - days_held]
                /\ switch_date = strftime(data.index[n - days_held + 1])

(* A run of at least two days that began in the month after the table's    *)
(* first row.                                                              *)
C6_Witness ==
    /\ Summarised
    /\ days_held >= 2 /\ days_held < Len(signals)
    /\ prev_signal # None
    /\ switch_date # NoDate
    /\ switch_date[2] # strftime(data.index[1])[2]

---------------------------------------------------------------------------
(* Properties of the period returns printed in the report.                 *)
Reported == outcome = "reported"
LastRow == Len(data.index)
TargetDate(d) == data.index[LastRow] - d
CumSeries == [strat |-> strat_cum, b1 |-> bench_cum_1x,
              b2 |-> bench_cum_2x, b3 |-> bench_cum_3x]
SeriesNames == {"strat", "b1", "b2", "b3"}
StrictlyIncreasing(index) ==
    \A k \in 2..Len(index) : index[k - 1] < index[k]

(* C8: a lookback whose target date lies before the first date of the      *)
(* series, or a series of fewer than lookbackDays entries, gives 0.0.      *)
C8_LookbackBeyondHistory ==
    Reported =>
        \A d \in periods :
            (TargetDate(d) < data.index[1] \/ LastRow < d) =>
                \A c \in SeriesNames : report.table[d][c] = 0

(* The 7-day lookback reaches before the first row of a table whose        *)
(* strategy and 1x series both end away from where they started.           *)
C8_Witness ==
    /\ Reported
    /\ TargetDate(7) < data.index[1]
    /\ strat_cum[LastRow] # strat_cum[1]
    /\ bench_cum_1x[LastRow] # bench_cum_1x[1]
    /\ report.table[7].strat = 0 /\ report.table[7].b1 = 0

(* C9: with at least lookbackDays entries and strictly increasing dates    *)
(* the result is last value / value at row k, minus 1, where k is the      *)
(* first row dated on or after last date - lookbackDays; such a row always *)
(* exists.                                                                 *)
IsFirstOnOrAfter(k, t) ==
    /\ data.index[k] >= t
    /\ \A j \in 1..(k - 1) : data.index[j] < t

C9_PeriodReturnRatio ==
    Reported =>
        /\ StrictlyIncreasing(data.index)
        /\ \A d \in periods :
              LastRow >= d =>
                  \E k \in 1..LastRow :
                      /\ IsFirstOnOrAfter(k, TargetDate(d))
                      /\ \A c \in SeriesNames :
                            report.table[d][c] =
                                ((CumSeries[c][LastRow] * Milli)
                                     \div CumSeries[c][k]) - Milli

(* A 7-day lookback that lands exactly on the date of a row after the      *)
(* first, with the 1x series different on that row, the next and the last. *)
C9_Witness ==
    /\ Reported
    /\ LastRow >= 7
    /\ \E k \in 2..(LastRow - 1) :
          /\ data.index[k] = TargetDate(7)
          /\ bench_cum_1x[k] # bench_cum_1x[k + 1]
          /\ bench_cum_1x[k] # bench_cum_1x[LastRow]
          /\ report.table[7].b1 # 0

---------------------------------------------------------------------------
(* Properties of short, empty and flat inputs.                             *)
Finished == pc = "done"
NoComputation ==
    /\ i = 0 /\ current_state = None /\ signals = <<>>
    /\ ret_1x = <<>> /\ ret_2x = <<>> /\ ret_3x = <<>>
    /\ pos_series = <<>> /\ trades = <<>> /\ strat_daily_ret = <<>>
    /\ strat_cum = <<>>
    /\ bench_cum_1x = <<>> /\ bench_cum_2x = <<>> /\ bench_cum_3x = <<>>
    /\ last_signal = None /\ days_held = 0
    /\ prev_signal = None /\ switch_date = NoDate
    /\ report = <<>>

(* C11: every day on which the moving average is undefined emits NEUTRAL   *)
(* and leaves the running tier NEUTRAL, and a run over a non-empty table   *)
(* shorter than the longest indicator window, a one-row table included,    *)
(* ends with a report instead of failing.                                  *)
C11_InsufficientHistory ==
    /\ \A k \in Emitted : ~MaDefined(k) => signals[k] = NEUTRAL
    /\ (pc = "signals" /\ ~MaDefined(i - 1)) => current_state = NEUTRAL
    /\ (Finished /\ LastRow >= 1 /\ ~MaDefined(LastRow)) => Reported

(* C12: when the cleaned table is empty or the download fails, the run     *)
(* ends with a no-data or error outcome of its own and nothing is          *)
(* computed: no tier, not even the default one, no position, no backtest   *)
(* series, no holding summary, no report.                                  *)
C12_EmptyInput ==
    /\ (pc # "download" /\ LastRow = 0) =>
            /\ Finished
            /\ outcome \in {"no_data", "download_failed"}
            /\ NoComputation
    /\ outcome \in {"no_data", "download_failed"} => LastRow = 0
    /\ (Finished /\ LastRow >= 1) => outcome \in {"reported", "crashed"}

(* A run that ended on the no-data outcome with nothing computed.          *)
C12_Witness ==
    /\ Finished /\ outcome = "no_data"
    /\ LastRow = 0 /\ NoComputation

(* C13: on a flat price series every emitted tier is NEUTRAL, on the       *)
(* dormant days and on the days where the moving average is defined and    *)
(* equals the price.                                                       *)
FlatSeries ==
    \A j \in 1..LastRow : \A k \in 1..LastRow : data.NDX[j] = data.NDX[k]

C13_FlatSeriesNeutral ==
    (pc # "download" /\ FlatSeries) =>
        \A k \in Emitted : signals[k] = NEUTRAL

---------------------------------------------------------------------------
(* Properties of the comparisons of the signal loop.                       *)
PriceAtBear(k) ==
    data.NDX[k] * ma_window * Milli = NdxWindowSum(k) * (Milli - bear_buffer)
PriceAtBull(k) ==
    data.NDX[k] * ma_window * Milli = NdxWindowSum(k) * (Milli + bull_buffer)
OscEquals(k, t) ==
    /\ OscDefined(k)
    /\ Falls(k) > 0
    /\ (100 - t) * Rises(k) = t * Falls(k)

(* C14: the comparisons are strict.  A price equal to movingAverage *      *)
(* (1 - bearBuffer) does not move the tier to DEFENSIVE; a price equal to  *)
(* movingAverage * (1 + bullBuffer) leaves a DEFENSIVE tier DEFENSIVE; an  *)
(* oscillator equal to rsiSellThreshold or to rsiBuyThreshold, on a day    *)
(* the trend gate lets through, leaves a NEUTRAL or AGGRESSIVE tier as it  *)
(* was.                                                                    *)
C14_StrictThresholds ==
    [][(pc = "signals" /\ MaDefined(i)) =>
          /\ (PriceAtBear(i) /\ current_state # DEFENSIVE)
                => signals'[i] # DEFENSIVE
          /\ (PriceAtBull(i) /\ current_state = DEFENSIVE)
                => signals'[i] = DEFENSIVE
          /\ (/\ ~PriceBelowBear(i)
              /\ current_state \in {NEUTRAL, AGGRESSIVE}
              /\ OscEquals(i, rsi_sell_3x) \/ OscEquals(i, rsi_buy_3x))
                => signals'[i] = current_state]_vars

(* A NEUTRAL day whose price equals the moving average and whose           *)
(* oscillator equals rsiBuyThreshold, then a DEFENSIVE day, then a day     *)
(* whose price equals the bull threshold and that stays DEFENSIVE.         *)
C14_Witness ==
    \E k \in Emitted :
        /\ k > 1 /\ k + 2 \in Emitted
        /\ MaDefined(k)
        /\ signals[k - 1] = NEUTRAL
        /\ PriceAtBear(k) /\ OscEquals(k, rsi_buy_3x)
        /\ signals[k] = NEUTRAL
        /\ signals[k + 1] = DEFENSIVE
        /\ PriceAtBull(k + 2)
        /\ signals[k + 2] = DEFENSIVE

---------------------------------------------------------------------------
(* Properties relating two runs.                                           *)
(* The price histories that agree with the table on every day outside the  *)
(* moving-average window of day k, on the price of day k and on the        *)
(* moving average of day k, and that are free on the other days of the     *)
(* window, so that their oscillator on day k may differ.                   *)
SamePriceAndAverage(k) ==
    {q \in {[j \in 1..k |-> IF j > k - ma_window /\ j < k
                              THEN w[j] ELSE data.NDX[j]] :
               w \in [(k - ma_window + 1)..(k - 1) -> 1..MaxPrice]} :
        SumRange(q, k - ma_window + 1, k) = NdxWindowSum(k)}

(* C15: while the running tier is DEFENSIVE the oscillator is ignored: a   *)
(* second run whose running tier is DEFENSIVE too and whose price and      *)
(* moving average on day i are the same emits the same tier on day i,      *)
(* whatever its oscillator on that day.                                    *)
C15_MomentumIgnoredWhileDefensive ==
    [][(pc = "signals" /\ MaDefined(i) /\ current_state = DEFENSIVE) =>
          \A q \in SamePriceAndAverage(i) :
              next_state(DEFENSIVE, q, i) = signals'[i]]_vars

(* A day that leaves the defensive tier with the oscillator above the sell *)
(* threshold, while a second history with the same price and average has   *)
(* it below the buy threshold and leaves to the same tier.                 *)
C15_Witness ==
    \E k \in Emitted :
        /\ k > 1 /\ MaDefined(k)
        /\ signals[k - 1] = DEFENSIVE
        /\ ~PriceBelowBear(k)
        /\ OscAbove(k, rsi_sell_3x)
        /\ \E q \in SamePriceAndAverage(k) :
              /\ rsi_lt(q, k, rsi_buy_3x)
              /\ next_state(DEFENSIVE, q, k) = signals[k]

---------------------------------------------------------------------------
(* Properties of the oscillator.                                           *)
(* C16: whenever the losses over the trailing rsiWindow days are zero, the *)
(* oscillator is computed with the epsilon in their place and comes out    *)
(* near 100, above rsiSellThreshold, also for a window whose deltas are    *)
(* all zero.                                                               *)
C16_ZeroLossNearHundred ==
    \A k \in 1..LastRow :
        (~rsi_isna(k) /\ loss_sum(data.NDX, k) = 0) =>
            /\ rsi_gt(data.NDX, k, rsi_sell_3x)
            /\ rsi_gt(data.NDX, k, 99)

---------------------------------------------------------------------------
(* Properties of consecutive tiers.                                        *)
(* C18: a DEFENSIVE day is never immediately followed by an AGGRESSIVE     *)
(* day, and AGGRESSIVE is emitted only on a day where the moving average   *)
(* is defined, the price is not below the bear threshold and the tier      *)
(* emitted the day before was NEUTRAL or AGGRESSIVE.                       *)
C18_ExitThroughNeutral ==
    \A k \in Emitted :
        /\ (k > 1 /\ signals[k - 1] = DEFENSIVE) => signals[k] # AGGRESSIVE
        /\ signals[k] = AGGRESSIVE =>
              /\ MaDefined(k)
              /\ ~PriceBelowBear(k)
              /\ k > 1
              /\ signals[k - 1] \in {NEUTRAL, AGGRESSIVE}

(* A DEFENSIVE day, the NEUTRAL day of the recovery, then an AGGRESSIVE    *)
(* day.                                                                    *)
C18_Witness ==
    \E k \in Emitted :
        /\ k > 2
        /\ signals[k - 2] = DEFENSIVE
        /\ PriceAboveBull(k - 1)
        /\ signals[k - 1] = NEUTRAL
        /\ OscBelow(k, rsi_buy_3x)
        /\ signals[k] = AGGRESSIVE

(* C19: with at least two signals the report issues ACTION exactly when    *)
(* daysHeld is 1 and the transition date is the last date of the table,    *)
(* and HOLD exactly when daysHeld is 2 or more.                            *)
C19_ActionMatchesHolding ==
    Reported =>
        /\ Len(signals) >= 2
        /\ report.action \in {"ACTION", "HOLD"}
        /\ report.action = "ACTION" <=>
              /\ signals[LastRow] # signals[LastRow - 1]
              /\ days_held = 1
              /\ report.days = 1
              /\ switch_date = strftime(data.index[LastRow])
        /\ report.action = "HOLD" <=>
              /\ signals[LastRow] = signals[LastRow - 1]
              /\ days_held >= 2
              /\ report.days >= 2

(* A report that issues ACTION on the day of a switch, with the switch     *)
(* dated on the last row.                                                  *)
C19_Witness ==
    /\ Reported
    /\ report.action = "ACTION"
    /\ report.sell = etf_map[signals[LastRow - 1]]
    /\ report.buy = etf_map[signals[LastRow]]
    /\ days_held = 1
    /\ report.switched = <<strftime(data.index[LastRow]),
                           etf_map[signals[LastRow - 1]]>>

====
